---- MODULE Spec2Model ----
(***************************************************************************)
(* keras_retinanet/losses.py: the focal loss and the smooth-L1 loss, each  *)
(* closing over one trainable scalar sigma_var.                            *)
(*                                                                         *)
(* Numbers.  The code computes in float32.  Here a real number r is the    *)
(* integer round(r * SCALE): fixed point with four decimal places.  The    *)
(* library functions exp, log, sqrt, erf and pow are computed by series in *)
(* that fixed point, each step rounded to the nearest unit; the losses     *)
(* agree with the real-number values of the code's formulas to about three *)
(* significant digits.  Integers here are 32 bits wide, so products are    *)
(* formed in halves (Mul) and every magnitude stays below a few hundred.   *)
(*                                                                         *)
(* Tensors.  A tensor of shape (B, N, K) is a sequence of B sequences of N *)
(* sequences of K numbers; a gathered tensor of shape (M, K) is a sequence *)
(* of M rows.                                                              *)
(***************************************************************************)
EXTENDS Integers, Sequences, FiniteSets, TLC

(***************************************************************************)
(* Fixed-point arithmetic (float32 arithmetic of the tensor framework).    *)
(***************************************************************************)
SCALE == 10000

Abs(x) == IF x < 0 THEN -x ELSE x

Sgn(x) == IF x < 0 THEN -1 ELSE 1

Max2(a, b) == IF a < b THEN b ELSE a

\* a / b for integers a and b > 0, rounded to the nearest integer.
RDiv(a, b) == Sgn(a) * ((Abs(a) + b \div 2) \div b)

\* x * y: the product of two fixed-point numbers, formed in halves.
MulAbs(a, b) ==
    (a \div SCALE) * b + (a % SCALE) * (b \div SCALE)
        + RDiv((a % SCALE) * (b % SCALE), SCALE)

Mul(x, y) == Sgn(x) * Sgn(y) * MulAbs(Abs(x), Abs(y))

\* x / y, y # 0.
DivAbs(a, b) == (a \div b) * SCALE + RDiv((a % b) * SCALE, b)

Div(x, y) == Sgn(x) * Sgn(y) * DivAbs(Abs(x), Abs(y))

\* sqrt(x), x >= 0: the integer square root of x * SCALE, by Newton's iteration.
RECURSIVE ISqrtIter(_, _)
ISqrtIter(n, r) ==
    LET r2 == (r + n \div r) \div 2
    IN  IF r2 >= r THEN r ELSE ISqrtIter(n, r2)

Sqrt(x) == IF x = 0 THEN 0 ELSE ISqrtIter(x * SCALE, x * SCALE)

\* e, ln 2 and 2/sqrt(pi) in fixed point.
EULER == 27183
LN2 == 6931
TWO_OVER_SQRT_PI == 11284

\* Series are summed until the term rounds to zero, at most MaxTerms terms.
MaxTerms == 24

\* exp(x) is below half a unit for x <= -ExpFloor: it rounds to zero.
ExpFloor == 100000

\* exp of the fractional part f in [0, 1): sum of f^k / k!.
RECURSIVE ExpTaylor(_, _, _, _)
ExpTaylor(f, k, term, acc) ==
    IF term = 0 \/ k > MaxTerms THEN acc
    ELSE LET t == RDiv(Mul(term, f), k)
         IN  ExpTaylor(f, k + 1, t, acc + t)

\* e^n for a natural n.
RECURSIVE ExpInt(_)
ExpInt(n) == IF n = 0 THEN SCALE ELSE Mul(EULER, ExpInt(n - 1))

ExpPos(x) == Mul(ExpInt(x \div SCALE), ExpTaylor(x % SCALE, 1, SCALE, SCALE))

Exp(x) ==
    IF x >= 0 THEN ExpPos(x)
    ELSE IF x <= -ExpFloor THEN 0
    ELSE Div(SCALE, ExpPos(-x))

\* ln of m in [1, 2): 2 * atanh((m - 1) / (m + 1)).
RECURSIVE AtanhSeries(_, _, _, _)
AtanhSeries(z2, k, pw, acc) ==
    IF pw = 0 \/ k > MaxTerms THEN acc
    ELSE LET p == Mul(pw, z2)
         IN  AtanhSeries(z2, k + 1, p, acc + RDiv(p, 2 * k + 1))

LnMantissa(m) ==
    LET z == Div(m - SCALE, m + SCALE)
    IN  2 * AtanhSeries(Mul(z, z), 1, z, z)

\* log(x), x > 0: x is brought into [1, 2) by doubling or halving.
RECURSIVE LnReduce(_, _)
LnReduce(x, k) ==
    IF x < SCALE THEN LnReduce(2 * x, k - 1)
    ELSE IF x >= 2 * SCALE THEN LnReduce(x \div 2, k + 1)
    ELSE LnMantissa(x) + k * LN2

Ln(x) == LnReduce(x, 0)

\* x ** y for x >= 0, as the framework's pow: x ** 0 = 1 (also for x = 0),
\* 0 ** y = 0 for y > 0.
Pow(x, y) ==
    IF y = 0 THEN SCALE
    ELSE IF x = 0 THEN 0
    ELSE Exp(Mul(y, Ln(x)))

\* erf(x), x >= 0: (2/sqrt(pi)) * sum of (-1)^n x^(2n+1) / (n! (2n+1)).
RECURSIVE ErfSeries(_, _, _, _)
ErfSeries(x2, n, pw, acc) ==
    IF pw = 0 \/ n > MaxTerms THEN acc
    ELSE LET p == RDiv(Mul(pw, x2), n)
             t == RDiv(p, 2 * n + 1)
         IN  ErfSeries(x2, n + 1, p, IF n % 2 = 1 THEN acc - t ELSE acc + t)

Erf(x) == Mul(TWO_OVER_SQRT_PI, ErfSeries(Mul(x, x), 1, x, x))

(***************************************************************************)
(* Tensor operations.                                                      *)
(***************************************************************************)
RECURSIVE SumSeq(_)
SumSeq(s) == IF s = <<>> THEN 0 ELSE Head(s) + SumSeq(Tail(s))

\* keras.backend.sum of a tensor of shape (M, K); the sum of no element is 0.
Sum2(t) == SumSeq([i \in 1..Len(t) |-> SumSeq(t[i])])

\* t[:, :, :-1]
AllButLast(t) ==
    [b \in 1..Len(t) |-> [n \in 1..Len(t[b]) |->
        SubSeq(t[b][n], 1, Len(t[b][n]) - 1)]]

\* t[:, :, -1]
LastChannel(t) ==
    [b \in 1..Len(t) |-> [n \in 1..Len(t[b]) |-> t[b][n][Len(t[b][n])]]]

\* The positions <<b, n>> of a tensor of shape (B, N), in row-major order.
Positions(t) ==
    LET N == IF Len(t) = 0 THEN 0 ELSE Len(t[1])
    IN  [k \in 1..(Len(t) * N) |-> <<((k - 1) \div N) + 1, ((k - 1) % N) + 1>>]

\* tf.where(mask): the positions where mask holds, in row-major order.
where(mask) == SelectSeq(Positions(mask), LAMBDA ix : mask[ix[1]][ix[2]])

\* tf.gather_nd(t, indices): the rows of t at the given positions.
gather_nd(t, indices) ==
    [i \in 1..Len(indices) |-> t[indices[i][1]][indices[i][2]]]

(***************************************************************************)
(* The values the model takes its inputs from.                             *)
(***************************************************************************)
\* Defaults of the constructors' parameters.
ALPHA_DEFAULT == 1000
GAMMA_DEFAULT == 20000
CUTOFF_DEFAULT == 5000
SIGMA_DEFAULT == 30000

\* The values the optimizer may give a trainable scalar.
SigmaVarVals == {-SCALE, 0, SCALE}

\* The parameters focal and smooth_l1 are constructed with.
FocalParams ==
    { [alpha |-> ALPHA_DEFAULT, gamma |-> GAMMA_DEFAULT, cutoff |-> CUTOFF_DEFAULT],
      [alpha |-> ALPHA_DEFAULT, gamma |-> 0, cutoff |-> CUTOFF_DEFAULT],
      [alpha |-> SCALE \div 2, gamma |-> 0, cutoff |-> CUTOFF_DEFAULT] }

SigmaChoices == {SCALE, 2 * SCALE, SIGMA_DEFAULT}

\* Labels and predicted probabilities of a classification batch.
LabelVals == {0, SCALE \div 2, SCALE}

PredVals == {SCALE \div 10, 9 * (SCALE \div 10)}

\* Predicted probabilities the per-element formulas are also examined at.
ProbeVals == PredVals \cup {0, SCALE}

\* The four targets (t) and four predictions (p) of an anchor of a
\* regression batch are one of these rows.
RegRows ==
    { [t |-> <<0, 0, 0, 0>>, p |-> <<0, 0, 0, 0>>],
      [t |-> <<5000, -5000, 1000, 0>>, p |-> <<5000, -5000, 1000, 0>>],
      [t |-> <<0, 0, 0, 0>>, p |-> <<500, -1000, 2500, 10000>>],
      [t |-> <<1000, 2000, -2000, 3000>>, p |-> <<-111, 4500, 0, 2950>>] }

\* The pairs <<prediction, target>> of these rows, and the values
\* regression_diff takes on them.
RegPairs == {<<r.p[k], r.t[k]>> : r \in RegRows, k \in 1..4}

RegDiffs == {Abs(x[1] - x[2]) : x \in RegPairs}

(***************************************************************************)
(* focal._focal                                                            *)
(***************************************************************************)
\* Anchor states, as the generator writes them into the last channel.
IGNORE == -SCALE
BACKGROUND == 0
OBJECT == SCALE

\* Mutant of focal_indices: the wrong marker is filtered out (0, not -1).
focal_indices_wrong_marker(anchor_state) ==
    where([b \in 1..Len(anchor_state) |-> [n \in 1..Len(anchor_state[b]) |->
        anchor_state[b][n] # BACKGROUND]])

\* indices = tf.where(not_equal(anchor_state, -1))
focal_indices(anchor_state) ==
    where([b \in 1..Len(anchor_state) |-> [n \in 1..Len(anchor_state[b]) |->
        anchor_state[b][n] # IGNORE]])

\* Mutant of alpha_factor: the comparison with cutoff is not strict.
alpha_factor_not_strict(label, alpha, cutoff) ==
    LET a == Mul(SCALE, alpha)
    IN  IF label >= cutoff THEN a ELSE SCALE - a

\* alpha_factor = where(labels > cutoff, ones_like(labels) * alpha, 1 - that)
alpha_factor(label, alpha, cutoff) ==
    LET a == Mul(SCALE, alpha)
    IN  IF label > cutoff THEN a ELSE SCALE - a

\* focal_weight before alpha and gamma are applied (lines 63-67).
focal_base(label, p, cutoff, sv) ==
    IF label > cutoff
    THEN Mul(Pow(SCALE - p, Exp(-sv)), Exp(Mul(-(SCALE \div 2), sv)))
    ELSE Mul(Pow(SCALE - (SCALE - p), Exp(-sv)), Exp(Mul(-(SCALE \div 2), sv)))

\* focal_weight = alpha_factor * focal_weight ** gamma
focal_weight(label, p, alpha, gamma, cutoff, sv) ==
    Mul(alpha_factor(label, alpha, cutoff),
        Pow(focal_base(label, p, cutoff, sv), gamma))

\* log(epsilon + epsilon) = log(2e-7), epsilon = keras.backend.epsilon() = 1e-7:
\* the logarithm of output + epsilon where output was clipped up to epsilon.
LN_2EPSILON == -154249

\* log(1 - (1 - epsilon) + epsilon) in float32, where 1 - epsilon is
\* 0.99999988, so that the argument is 1.19e-7 + 1e-7 = 2.19e-7: the logarithm
\* of 1 - output + epsilon where output was clipped down to 1 - epsilon.
LN_ONE_MINUS_CLIPPED == -153332

\* keras.backend.binary_crossentropy(target, output), from probabilities.
\* output is clipped to [epsilon, 1 - epsilon] and epsilon is added under each
\* log.  epsilon = 1e-7 is below the resolution of the fixed point: it changes
\* a logarithm only where its argument would be 0, at output <= 0 to log(2e-7)
\* and at output >= 1 to log(2.19e-7).
binary_crossentropy(target, output) ==
    LET log_p == IF output <= 0 THEN LN_2EPSILON ELSE Ln(output)
        log_q == IF output >= SCALE THEN LN_ONE_MINUS_CLIPPED ELSE Ln(SCALE - output)
    IN  -(Mul(target, log_p) + Mul(SCALE - target, log_q))

\* Mutant of cross_entropy: the other sign of sigma_var / 2, which the source's
\* comment on line 71 considers.
cross_entropy_minus(label, p, sv) ==
    Mul(binary_crossentropy(label, p), Exp(-sv)) - Div(sv, 2 * SCALE)

\* cross_entropy = binary_crossentropy(...) * exp(-sigma_var) + sigma_var / 2.0
cross_entropy(label, p, sv) ==
    Mul(binary_crossentropy(label, p), Exp(-sv)) + Div(sv, 2 * SCALE)

\* cls_loss = focal_weight * cross_entropy, one element.
cls_loss_elem(label, p, alpha, gamma, cutoff, sv) ==
    Mul(focal_weight(label, p, alpha, gamma, cutoff, sv),
        cross_entropy(label, p, sv))

\* cls_loss_elem on the values of the model's batches and parameters, computed
\* once (@@ makes the function an explicit table); cls_loss_at is
\* cls_loss_elem, read from the table where it can be.
ClsLossTable ==
    [k \in LabelVals \X ProbeVals \X FocalParams \X SigmaVarVals |->
        cls_loss_elem(k[1], k[2], k[3].alpha, k[3].gamma, k[3].cutoff, k[4])]
    @@ <<>>

cls_loss_at(label, p, alpha, gamma, cutoff, sv) ==
    LET k == <<label, p, [alpha |-> alpha, gamma |-> gamma, cutoff |-> cutoff], sv>>
    IN  IF k \in DOMAIN ClsLossTable THEN ClsLossTable[k]
        ELSE cls_loss_elem(label, p, alpha, gamma, cutoff, sv)

\* cls_loss over the gathered tensors of shape (M, C).
cls_loss(labels, classification, alpha, gamma, cutoff, sv) ==
    [i \in 1..Len(labels) |-> [c \in 1..Len(labels[i]) |->
        cls_loss_at(labels[i][c], classification[i][c], alpha, gamma, cutoff, sv)]]

\* Mutant of focal_normalizer: the anchors that were selected are counted.
focal_normalizer_selected(anchor_state) ==
    Max2(SCALE, Len(focal_indices(anchor_state)) * SCALE)

\* normalizer = max(1.0, number of anchors with state 1)
focal_normalizer(anchor_state) ==
    LET positive == where([b \in 1..Len(anchor_state) |->
                        [n \in 1..Len(anchor_state[b]) |-> anchor_state[b][n] = OBJECT]])
    IN  Max2(SCALE, Len(positive) * SCALE)

_focal(y_true, y_pred, alpha, gamma, cutoff, sv) ==
    LET anchor_state == LastChannel(y_true)
        indices == focal_indices(anchor_state)
        labels == gather_nd(AllButLast(y_true), indices)
        classification == gather_nd(y_pred, indices)
    IN  Div(Sum2(cls_loss(labels, classification, alpha, gamma, cutoff, sv)),
            focal_normalizer(anchor_state))

(***************************************************************************)
(* smooth_l1._smooth_l1                                                    *)
(***************************************************************************)
\* Mutant of smooth_indices: only the "ignore" anchors are filtered out, as
\* the source's comment on line 116 says.
smooth_indices_not_ignored(anchor_state) ==
    where([b \in 1..Len(anchor_state) |-> [n \in 1..Len(anchor_state[b]) |->
        anchor_state[b][n] # IGNORE]])

\* indices = tf.where(equal(anchor_state, 1))
smooth_indices(anchor_state) ==
    where([b \in 1..Len(anchor_state) |-> [n \in 1..Len(anchor_state[b]) |->
        anchor_state[b][n] = OBJECT]])

\* factor = 1.0 / (2.0 * exp(sigma_var))
factor(sv) == Div(SCALE, Mul(2 * SCALE, Exp(sv)))

\* log(1.0 - erf(sqrt(factor) / sigma_squared))
log_erfc(sigma_squared, sv) ==
    Ln(SCALE - Erf(Div(Sqrt(factor(sv)), sigma_squared)))

\* The first branch of tf.where (line 129).
quadratic_branch(d, sv) ==
    Mul(factor(sv), Mul(d, d)) + Mul(SCALE \div 2, sv)

\* The second branch of tf.where (lines 130-143).
log_branch(d, sigma_squared, sv) ==
    Mul(Mul(Div(-SCALE, sigma_squared), log_erfc(sigma_squared, sv)), d)
        + log_erfc(sigma_squared, sv)
        + Div(factor(sv), Mul(sigma_squared, sigma_squared))
        + Mul(SCALE \div 2, sv)

(***************************************************************************)
(* The comparison keras.backend.less(regression_diff, 1.0 / sigma_squared) *)
(* is made on float32 tensors.  Where |regression - regression_target| and *)
(* 1 / sigma_squared are closer than the fixed point resolves, or equal as *)
(* decimals, float32 rounding of the operands decides it; so the           *)
(* comparison is computed as float32 computes it, exactly: a float32 is a  *)
(* record [m, e] of value m * 2^e with 2^23 <= |m| < 2^24, or m = 0.       *)
(***************************************************************************)
TWO23 == 8388608
TWO24 == 16777216

\* The float32 nearest to (m + r / d) * 2^e, ties to even; 0 <= r < d and
\* m < 2^24, not both 0.
RECURSIVE F32Norm(_, _, _, _)
F32Norm(m, r, d, e) ==
    LET bit == IF 2 * r >= d THEN 1 ELSE 0
        rest == 2 * r - bit * d
    IN  IF m < TWO23 THEN F32Norm(2 * m + bit, rest, d, e - 1)
        ELSE LET up == bit = 1 /\ (rest > 0 \/ m % 2 = 1)
                 m1 == IF up THEN m + 1 ELSE m
             IN  IF m1 = TWO24 THEN [m |-> TWO23, e |-> e + 1]
                 ELSE [m |-> m1, e |-> e]

\* The float32 nearest to n / d, for n >= 0 and d > 0.
F32(n, d) ==
    IF n = 0 THEN [m |-> 0, e |-> 0] ELSE F32Norm(n \div d, n % d, d, 0)

\* The float32 a tensor holds for the value x of the fixed point.
F32Of(x) ==
    LET f == F32(Abs(x), SCALE) IN [m |-> Sgn(x) * f.m, e |-> f.e]

F32Neg(f) == [m |-> -f.m, e |-> f.e]

\* -1, 0 or 1 as x is negative, zero or positive.
Sign3(x) == IF x < 0 THEN -1 ELSE IF x > 0 THEN 1 ELSE 0

\* The largest exponent of a non-empty sequence of terms [m, e].
RECURSIVE MaxExp(_)
MaxExp(ts) ==
    IF Len(ts) = 1 THEN ts[1].e
    ELSE LET x == MaxExp(Tail(ts)) IN IF ts[1].e > x THEN ts[1].e ELSE x

\* The sign of acc * 2^e + the sum of the terms ts, each of an exponent <= e
\* and |m| < 2^26.  Once |acc| >= 2^27 the terms left cannot change the sign.
RECURSIVE SignFrom(_, _, _)
SignFrom(acc, e, ts) ==
    LET here == SelectSeq(ts, LAMBDA x : x.e = e)
        rest == SelectSeq(ts, LAMBDA x : x.e < e)
        acc1 == acc + SumSeq([i \in 1..Len(here) |-> here[i].m])
    IN  IF rest = <<>> \/ Abs(acc1) >= 8 * TWO24 THEN Sign3(acc1)
        ELSE IF acc1 = 0 THEN SignFrom(0, MaxExp(rest), rest)
        ELSE SignFrom(2 * acc1, e - 1, rest)

\* The sign of the exact sum of the terms ts.
SignSum(ts) ==
    LET nz == SelectSeq(ts, LAMBDA x : x.m # 0)
    IN  IF nz = <<>> THEN 0 ELSE SignFrom(0, MaxExp(nz), nz)

\* The sign of |a - b| - c, for floats a, b and a term c > 0.
SignAbsDiffMinus(a, b, c) ==
    LET s1 == SignSum(<<a, F32Neg(b), F32Neg(c)>>)
        s2 == SignSum(<<b, F32Neg(a), F32Neg(c)>>)
    IN  IF s1 > s2 THEN s1 ELSE s2

\* -1, 0 or 1 as the float32 abs(regression - regression_target) is less than,
\* equal to or greater than the float32 1.0 / sigma_squared.  The difference
\* rounds to a float below the threshold th iff it is below the midpoint of
\* th and the float before it, or at that midpoint with th's mantissa odd;
\* and alike above.
diff_vs_threshold(regression, regression_target, sigma_squared) ==
    LET a == F32Of(regression)
        b == F32Of(regression_target)
        th == F32(SCALE, sigma_squared)
        lo == IF th.m > TWO23 THEN [m |-> 2 * th.m - 1, e |-> th.e - 1]
              ELSE [m |-> 2 * TWO24 - 1, e |-> th.e - 2]
        hi == [m |-> 2 * th.m + 1, e |-> th.e - 1]
        below == SignAbsDiffMinus(a, b, lo)
        above == SignAbsDiffMinus(a, b, hi)
    IN  IF below < 0 \/ (below = 0 /\ th.m % 2 = 1) THEN -1
        ELSE IF above > 0 \/ (above = 0 /\ th.m % 2 = 1) THEN 1
        ELSE 0

\* Mutant of less: the comparison is not strict.
less_or_equal(regression, regression_target, sigma_squared) ==
    diff_vs_threshold(regression, regression_target, sigma_squared) <= 0

\* keras.backend.less(regression_diff, 1.0 / sigma_squared), one element.
less(regression, regression_target, sigma_squared) ==
    diff_vs_threshold(regression, regression_target, sigma_squared) < 0

\* regression_diff = abs(regression - regression_target), one element.
regression_diff(regression, regression_target) ==
    Abs(regression - regression_target)

\* regression_loss = tf.where(less(...), first branch, second branch), one
\* element.
regression_loss_elem(regression, regression_target, sigma_squared, sv) ==
    IF less(regression, regression_target, sigma_squared)
    THEN quadratic_branch(regression_diff(regression, regression_target), sv)
    ELSE log_branch(regression_diff(regression, regression_target),
                    sigma_squared, sv)

\* regression_loss_elem and log_branch on the values of the model's batches
\* and parameters, computed once; regression_loss_at and log_branch_at read
\* them from the tables where they can.
RegKeys == RegPairs \X {Mul(s, s) : s \in SigmaChoices} \X SigmaVarVals

RegLossTable ==
    [k \in RegKeys |-> regression_loss_elem(k[1][1], k[1][2], k[2], k[3])]
    @@ <<>>

LogBranchKeys == RegDiffs \X {Mul(s, s) : s \in SigmaChoices} \X SigmaVarVals

LogBranchTable ==
    [k \in LogBranchKeys |-> log_branch(k[1], k[2], k[3])] @@ <<>>

regression_loss_at(regression, regression_target, sigma_squared, sv) ==
    IF <<<<regression, regression_target>>, sigma_squared, sv>> \in RegKeys
    THEN RegLossTable[<<<<regression, regression_target>>, sigma_squared, sv>>]
    ELSE regression_loss_elem(regression, regression_target, sigma_squared, sv)

log_branch_at(d, sigma_squared, sv) ==
    IF <<d, sigma_squared, sv>> \in LogBranchKeys
    THEN LogBranchTable[<<d, sigma_squared, sv>>]
    ELSE log_branch(d, sigma_squared, sv)

\* regression_loss over the gathered tensors of shape (M, 4).
regression_loss(regression, regression_target, sigma_squared, sv) ==
    [i \in 1..Len(regression) |-> [k \in 1..Len(regression[i]) |->
        regression_loss_at(regression[i][k], regression_target[i][k],
                           sigma_squared, sv)]]

\* normalizer = cast(max(1, shape(indices)[0]), floatx)
smooth_normalizer(indices) == Max2(1, Len(indices)) * SCALE

_smooth_l1(y_true, y_pred, sigma_squared, sv) ==
    LET anchor_state == LastChannel(y_true)
        indices == smooth_indices(anchor_state)
        regression == gather_nd(y_pred, indices)
        regression_target == gather_nd(AllButLast(y_true), indices)
    IN  Div(Sum2(regression_loss(regression, regression_target, sigma_squared, sv)),
            smooth_normalizer(indices))

(***************************************************************************)
(* The program's state.                                                    *)
(*   trainable  the trainable scalars created so far, by handle 1, 2, ...; *)
(*              trainable[h] is the value the scalar holds now             *)
(*   closures   the loss functions the constructors have returned, in the  *)
(*              order of construction, each with the parameters it closes  *)
(*              over, the handle sigma_var it reads, ret, the second       *)
(*              component of the pair its constructor returned, and arg,   *)
(*              the sigma_var its constructor was called with (NoHandle    *)
(*              for None)                                                  *)
(*   batch      the (y_true, y_pred) pair the generator and the network    *)
(*              supply to the next evaluation                              *)
(*   call       the last evaluation of a loss function: which closure,     *)
(*              its arguments and the value it returned                    *)
(***************************************************************************)
VARIABLES trainable, closures, batch, call

vars == <<trainable, closures, batch, call>>

\* sigma_var=None
NoHandle == 0

NoCall == [fn |-> 0]

NoBatch == [kind |-> "none"]

\* Bounds of the model.
MaxVars == 2
MaxClosures == 2
MaxClsCells == 2
MaxRegAnchors == 2

(***************************************************************************)
(* The batches.                                                            *)
(***************************************************************************)
AnchorStates == {IGNORE, BACKGROUND, OBJECT}

\* Classification batches of shape (B, N, C + 1) and (B, N, C).
ClsShapes ==
    {s \in (1..MaxClsCells) \X (1..MaxClsCells) \X (1..MaxClsCells) :
        s[1] * s[2] * s[3] <= MaxClsCells}

ClsTrueRows(C) ==
    {l \o <<st>> : l \in [1..C -> LabelVals], st \in AnchorStates}

ClsBatchesOf(s) ==
    {[kind |-> "cls", y_true |-> t, y_pred |-> p] :
        t \in [1..s[1] -> [1..s[2] -> ClsTrueRows(s[3])]],
        p \in [1..s[1] -> [1..s[2] -> [1..s[3] -> PredVals]]]}

ClsBatches == UNION {ClsBatchesOf(s) : s \in ClsShapes}

\* Regression batches of shape (B, N, 5) and (B, N, 4).
RegShapes ==
    {s \in (1..MaxRegAnchors) \X (1..MaxRegAnchors) : s[1] * s[2] <= MaxRegAnchors}

RegBatchesOf(s) ==
    {[kind |-> "reg",
      y_true |-> [b \in 1..s[1] |-> [n \in 1..s[2] |-> r[b][n].t \o <<st[b][n]>>]],
      y_pred |-> [b \in 1..s[1] |-> [n \in 1..s[2] |-> r[b][n].p]]] :
        r \in [1..s[1] -> [1..s[2] -> RegRows]],
        st \in [1..s[1] -> [1..s[2] -> AnchorStates]]}

RegBatches == UNION {RegBatchesOf(s) : s \in RegShapes}

(***************************************************************************)
(* The constructors.                                                       *)
(***************************************************************************)
\* Mutant of ctor_handle: one scalar shared by all constructors called without
\* a sigma_var (the last one created).
ctor_handle_shared(sigma_var) ==
    IF sigma_var = NoHandle THEN Max2(1, Len(trainable)) ELSE sigma_var

\* The handle a constructor called with sigma_var uses: a new scalar when
\* sigma_var is None, else sigma_var itself.
ctor_handle(sigma_var) ==
    IF sigma_var = NoHandle THEN Len(trainable) + 1 ELSE sigma_var

\* tf.Variable(initial_value=constant_initializer(0)..., trainable=True),
\* created only if sigma_var is None.
ctor_trainable(sigma_var) ==
    IF sigma_var = NoHandle THEN Append(trainable, 0) ELSE trainable

\* focal(alpha, gamma, cutoff, sigma_var) returns (_focal, sigma_var).
focal(alpha, gamma, cutoff, sigma_var) ==
    /\ Len(closures) < MaxClosures
    /\ sigma_var = NoHandle => Len(trainable) < MaxVars
    /\ trainable' = ctor_trainable(sigma_var)
    /\ closures' = Append(closures,
            [kind |-> "focal", alpha |-> alpha, gamma |-> gamma, cutoff |-> cutoff,
             sigma_var |-> ctor_handle(sigma_var), ret |-> ctor_handle(sigma_var),
             arg |-> sigma_var])
    /\ UNCHANGED <<batch, call>>

\* smooth_l1(sigma, sigma_var) returns (_smooth_l1, sigma_var).
smooth_l1(sigma, sigma_var) ==
    /\ Len(closures) < MaxClosures
    /\ sigma_var = NoHandle => Len(trainable) < MaxVars
    /\ trainable' = ctor_trainable(sigma_var)
    /\ closures' = Append(closures,
            [kind |-> "smooth_l1", sigma_squared |-> Mul(sigma, sigma),
             sigma_var |-> ctor_handle(sigma_var), ret |-> ctor_handle(sigma_var),
             arg |-> sigma_var])
    /\ UNCHANGED <<batch, call>>

\* The optimizer's gradient step assigns a trainable scalar a new value.
OptimizerStep(h, v) ==
    /\ h \in 1..Len(trainable)
    /\ trainable' = [trainable EXCEPT ![h] = v]
    /\ UNCHANGED <<closures, batch, call>>

(***************************************************************************)
(* The evaluations.                                                        *)
(***************************************************************************)
\* Mutant of read_value: the value the scalar had when it was created.
read_value_initial(h) == 0

\* The value a closure reads from its sigma_var when it runs.
read_value(h) == trainable[h]

\* closures[i](y_true, y_pred) for a closure made by focal.
EvalFocal(i, y_true, y_pred) ==
    /\ i \in 1..Len(closures)
    /\ closures[i].kind = "focal"
    /\ call' = [fn |-> i, y_true |-> y_true, y_pred |-> y_pred,
                result |-> _focal(y_true, y_pred, closures[i].alpha,
                                  closures[i].gamma, closures[i].cutoff,
                                  read_value(closures[i].sigma_var))]
    /\ UNCHANGED <<trainable, closures, batch>>

\* closures[i](y_true, y_pred) for a closure made by smooth_l1.
EvalSmoothL1(i, y_true, y_pred) ==
    /\ i \in 1..Len(closures)
    /\ closures[i].kind = "smooth_l1"
    /\ call' = [fn |-> i, y_true |-> y_true, y_pred |-> y_pred,
                result |-> _smooth_l1(y_true, y_pred, closures[i].sigma_squared,
                                      read_value(closures[i].sigma_var))]
    /\ UNCHANGED <<trainable, closures, batch>>

(***************************************************************************)
(* Spec: the life of the module.  Constructors are called with and without *)
(* a sigma_var, the optimizer updates the scalars, and the loss functions  *)
(* are evaluated on a few batches, in any order.                           *)
(***************************************************************************)
LifeClsBatches ==
    { [kind |-> "cls", y_true |-> <<<< <<SCALE, OBJECT>>, <<0, BACKGROUND>> >>>>,
                       y_pred |-> <<<< <<7000>>, <<2000>> >>>>],
      [kind |-> "cls", y_true |-> <<<< <<SCALE, IGNORE>> >>, << <<0, IGNORE>> >>>>,
                       y_pred |-> <<<< <<7000>> >>, << <<2000>> >>>>] }

LifeRegBatches ==
    { [kind |-> "reg", y_true |-> <<<< <<0, 0, 0, 0, OBJECT>>, <<0, 0, 0, 0, IGNORE>> >>>>,
                       y_pred |-> <<<< <<500, -3000, 0, 10000>>, <<1, 2, 3, 4>> >>>>],
      [kind |-> "reg", y_true |-> <<<< <<0, 0, 0, 0, BACKGROUND>> >>, << <<0, 0, 0, 0, IGNORE>> >>>>,
                       y_pred |-> <<<< <<500, -3000, 0, 10000>> >>, << <<1, 2, 3, 4>> >>>>] }

Init ==
    /\ trainable = <<>>
    /\ closures = <<>>
    /\ batch = NoBatch
    /\ call = NoCall

Next ==
    \/ \E h \in 0..Len(trainable) :
          focal(ALPHA_DEFAULT, GAMMA_DEFAULT, CUTOFF_DEFAULT, h)
    \/ \E h \in 0..Len(trainable) : smooth_l1(SIGMA_DEFAULT, h)
    \/ \E h \in 1..Len(trainable), v \in SigmaVarVals : OptimizerStep(h, v)
    \/ \E i \in 1..Len(closures), b \in LifeClsBatches : EvalFocal(i, b.y_true, b.y_pred)
    \/ \E i \in 1..Len(closures), b \in LifeRegBatches : EvalSmoothL1(i, b.y_true, b.y_pred)

Spec == Init /\ [][Next]_vars

(***************************************************************************)
(* SpecLoss: one loss function, constructed and trained to some value of   *)
(* sigma_var, is applied to the batch it is given.                         *)
(***************************************************************************)
InitFocal ==
    /\ trainable \in {<<v>> : v \in SigmaVarVals}
    /\ closures \in {<<[kind |-> "focal", alpha |-> q.alpha, gamma |-> q.gamma,
                        cutoff |-> q.cutoff, sigma_var |-> 1, ret |-> 1,
                        arg |-> NoHandle]>> :
                            q \in FocalParams}
    /\ batch \in ClsBatches
    /\ call = NoCall

InitSmoothL1 ==
    /\ trainable \in {<<v>> : v \in SigmaVarVals}
    /\ closures \in {<<[kind |-> "smooth_l1", sigma_squared |-> Mul(s, s),
                        sigma_var |-> 1, ret |-> 1, arg |-> NoHandle]>> :
                            s \in SigmaChoices}
    /\ batch \in RegBatches
    /\ call = NoCall

InitLoss == InitFocal \/ InitSmoothL1

NextLoss ==
    \/ batch.kind = "cls" /\ EvalFocal(1, batch.y_true, batch.y_pred)
    \/ batch.kind = "reg" /\ EvalSmoothL1(1, batch.y_true, batch.y_pred)

SpecLoss == InitLoss /\ [][NextLoss]_vars

(***************************************************************************)
(* Definitions the claims are stated with.                                 *)
(***************************************************************************)
\* The kind of the closure the last evaluation ran.
CallKind == IF call.fn = 0 THEN "none" ELSE closures[call.fn].kind

\* The closure the last evaluation ran, and the value its sigma_var holds.
CallClosure == closures[call.fn]

CallSigma == trainable[closures[call.fn].sigma_var]

\* The anchors <<b, n>> of a tensor of shape (B, N, K).
Anchors(t) == {<<b, n>> : b \in 1..Len(t), n \in 1..Len(t[1])}

AnchorsInState(t, st) ==
    {a \in Anchors(t) : t[a[1]][a[2]][Len(t[a[1]][a[2]])] = st}

\* The sum of the values of a function with a finite domain.
RECURSIVE SumFn(_)
SumFn(f) ==
    IF DOMAIN f = {} THEN 0
    ELSE LET e == CHOOSE e \in DOMAIN f : TRUE
         IN  f[e] + SumFn([x \in DOMAIN f \ {e} |-> f[x]])

\* |a - b| <= n units of the fixed point.
Close(a, b, n) == Abs(a - b) <= n

(***************************************************************************)
(* C1.  If no anchor survives the selection (_focal: every anchor state is *)
(* -1; _smooth_l1: no anchor state is 1) then, whatever sigma_var holds,   *)
(* the normalizer is exactly 1 and the loss returned is exactly 0.         *)
(***************************************************************************)
C1_NoSurvivorLossIsZero ==
    /\ (CallKind = "focal"
            /\ AnchorsInState(call.y_true, IGNORE) = Anchors(call.y_true))
        => /\ focal_normalizer(LastChannel(call.y_true)) = SCALE
           /\ call.result = 0
    /\ (CallKind = "smooth_l1" /\ AnchorsInState(call.y_true, OBJECT) = {})
        => /\ smooth_normalizer(smooth_indices(LastChannel(call.y_true))) = SCALE
           /\ call.result = 0

\* _focal has run, with sigma_var # 0, on two anchors that are both ignored.
C1_Witness ==
    /\ CallKind = "focal"
    /\ CallSigma # 0
    /\ Cardinality(Anchors(call.y_true)) = 2
    /\ AnchorsInState(call.y_true, IGNORE) = Anchors(call.y_true)
    /\ call.result = 0

(***************************************************************************)
(* C2, as claimed.  The loss _focal returns is >= 0 for labels and         *)
(* predictions in [0, 1], alpha in [0, 1], gamma >= 0 and every value of   *)
(* sigma_var.                                                              *)
(***************************************************************************)
C2_FocalNonNegative ==
    CallKind = "focal" => call.result >= 0

(***************************************************************************)
(* C2, amended.  The loss _focal returns is >= 0 for labels and            *)
(* predictions in [0, 1], alpha in [0, 1], gamma >= 0 and every value of   *)
(* sigma_var that is >= 0: every element's loss is >= 0, and so is the sum. *)
(***************************************************************************)
C2_FocalNonNegativeForSigmaNonNegative ==
    (CallKind = "focal" /\ CallSigma >= 0) =>
        /\ call.result >= 0
        /\ \A l \in LabelVals, p \in ProbeVals :
              cls_loss_at(l, p, CallClosure.alpha, CallClosure.gamma,
                          CallClosure.cutoff, CallSigma) >= 0

\* _focal has run with sigma_var > 0 and returned a positive loss.
C2_Witness ==
    /\ CallKind = "focal"
    /\ CallSigma > 0
    /\ call.result > 0

(***************************************************************************)
(* C4.  _focal returns the sum of the per-element losses over all classes  *)
(* of all anchors whose state is not -1 (state 0 included), labels and     *)
(* predictions taken at the same anchor, divided by max(1, number of       *)
(* anchors of the batch with state 1); so changing a label or a prediction *)
(* of an anchor with state -1 does not change the loss.                    *)
(***************************************************************************)
\* The loss of the elements of anchor a, summed over its classes.
FocalAnchorLoss(t, q, a, cl, sv) ==
    SumFn([c \in 1..Len(q[a[1]][a[2]]) |->
        cls_loss_at(t[a[1]][a[2]][c], q[a[1]][a[2]][c],
                    cl.alpha, cl.gamma, cl.cutoff, sv)])

C4_FocalAggregatesOverNotIgnored ==
    CallKind = "focal" =>
        LET t == call.y_true
            q == call.y_pred
            cl == CallClosure
            kept == Anchors(t) \ AnchorsInState(t, IGNORE)
            total == SumFn([a \in kept |-> FocalAnchorLoss(t, q, a, cl, CallSigma)])
            npos == Cardinality(AnchorsInState(t, OBJECT))
        IN  /\ call.result = Div(total, Max2(1, npos) * SCALE)
            /\ \A a \in AnchorsInState(t, IGNORE), c \in 1..Len(q[1][1]) :
                  /\ \A l \in LabelVals \ {t[a[1]][a[2]][c]} :
                        _focal([t EXCEPT ![a[1]][a[2]][c] = l], q,
                               cl.alpha, cl.gamma, cl.cutoff, CallSigma) = call.result
                  /\ \A v \in PredVals \ {q[a[1]][a[2]][c]} :
                        _focal(t, [q EXCEPT ![a[1]][a[2]][c] = v],
                               cl.alpha, cl.gamma, cl.cutoff, CallSigma) = call.result

\* _focal has run on an ignored, a background anchor with a loss of its own,
\* and the result is not zero.
C4_Witness ==
    /\ CallKind = "focal"
    /\ AnchorsInState(call.y_true, IGNORE) # {}
    /\ AnchorsInState(call.y_true, BACKGROUND) # {}
    /\ call.result # 0

(***************************************************************************)
(* C7.  With gamma = 0 the focal weight of every selected element is its   *)
(* alpha factor (alpha if label > cutoff, strictly; else 1 - alpha),       *)
(* whatever the prediction and sigma_var; with alpha = 0.5 it is 0.5 for   *)
(* every element and the loss is                                           *)
(* 0.5 * sum(binary_crossentropy * exp(-sigma_var) + sigma_var / 2)        *)
(* / normalizer.                                                           *)
(***************************************************************************)
C7_GammaZeroWeightIsAlphaFactor ==
    (CallKind = "focal" /\ CallClosure.gamma = 0) =>
        LET t == call.y_true
            q == call.y_pred
            cl == CallClosure
            kept == Anchors(t) \ AnchorsInState(t, IGNORE)
            classes == 1..Len(q[1][1])
            npos == Cardinality(AnchorsInState(t, OBJECT))
            ce(a) == SumFn([c \in classes |->
                        Mul(binary_crossentropy(t[a[1]][a[2]][c], q[a[1]][a[2]][c]),
                            Exp(-CallSigma)) + Div(CallSigma, 2 * SCALE)])
        IN  /\ \A a \in kept, c \in classes :
                  \A v \in ProbeVals \cup {q[a[1]][a[2]][c]}, sv \in SigmaVarVals :
                    focal_weight(t[a[1]][a[2]][c], v, cl.alpha, 0, cl.cutoff, sv)
                        = IF t[a[1]][a[2]][c] > cl.cutoff THEN cl.alpha
                          ELSE SCALE - cl.alpha
            /\ cl.alpha = SCALE \div 2 =>
                /\ \A a \in kept, c \in classes :
                      focal_weight(t[a[1]][a[2]][c], q[a[1]][a[2]][c],
                                   cl.alpha, 0, cl.cutoff, CallSigma) = SCALE \div 2
                /\ Close(call.result,
                         Div(Mul(SCALE \div 2, SumFn([a \in kept |-> ce(a)])),
                             Max2(1, npos) * SCALE),
                         Cardinality(kept) * Len(q[1][1]) + 1)

\* _focal has run with gamma = 0 and alpha = 0.1 on a selected element
\* whose label equals the cutoff.
C7_Witness ==
    /\ CallKind = "focal"
    /\ CallClosure.gamma = 0
    /\ CallClosure.alpha # SCALE \div 2
    /\ \E a \in Anchors(call.y_true) \ AnchorsInState(call.y_true, IGNORE) :
          call.y_true[a[1]][a[2]][1] = CallClosure.cutoff
    /\ call.result # 0

(***************************************************************************)
(* C3, as claimed.  In _smooth_l1 the two branches of the per-element loss *)
(* give the same value at the boundary |diff| = 1 / sigma^2, for the       *)
(* configured sigma and any value of sigma_var, up to the tolerance of the *)
(* arithmetic.                                                             *)
(***************************************************************************)
C3_BranchesAgreeAtBoundary ==
    LET ss == CallClosure.sigma_squared
        d == (SCALE * SCALE) \div ss
    IN  (/\ CallKind = "smooth_l1"
         /\ \E a \in AnchorsInState(call.y_true, OBJECT), k \in 1..4 :
               Abs(call.y_pred[a[1]][a[2]][k] - call.y_true[a[1]][a[2]][k]) * ss
                    = SCALE * SCALE)
        => Close(quadratic_branch(d, CallSigma), log_branch_at(d, ss, CallSigma), 10)

(***************************************************************************)
(* C5.  _smooth_l1 returns the sum of the per-element losses over the four *)
(* coordinates of all anchors whose state is 1, targets and predictions    *)
(* taken at the same anchor, divided by max(1, number of anchors with      *)
(* state 1); so changing the targets or predictions of an anchor with      *)
(* state 0 or -1 does not change the loss.                                 *)
(***************************************************************************)
\* The loss of the elements of anchor a, summed over its coordinates.
SmoothAnchorLoss(t, q, a, ss, sv) ==
    SumFn([k \in 1..Len(q[a[1]][a[2]]) |->
        regression_loss_at(q[a[1]][a[2]][k], t[a[1]][a[2]][k], ss, sv)])

C5_SmoothAggregatesOverPositive ==
    CallKind = "smooth_l1" =>
        LET t == call.y_true
            q == call.y_pred
            ss == CallClosure.sigma_squared
            kept == AnchorsInState(t, OBJECT)
            total == SumFn([a \in kept |-> SmoothAnchorLoss(t, q, a, ss, CallSigma)])
        IN  /\ \A a \in kept : Len(q[a[1]][a[2]]) = 4
            /\ call.result = Div(total, Max2(1, Cardinality(kept)) * SCALE)
            /\ \A a \in Anchors(t) \ kept, r \in RegRows :
                    _smooth_l1(
                        [t EXCEPT ![a[1]][a[2]] = r.t \o <<t[a[1]][a[2]][5]>>],
                        [q EXCEPT ![a[1]][a[2]] = r.p],
                        ss, CallSigma) = call.result

\* _smooth_l1 has run on a positive anchor beside a background anchor whose
\* prediction differs from its target, and the result is not zero.
C5_Witness ==
    /\ CallKind = "smooth_l1"
    /\ AnchorsInState(call.y_true, OBJECT) # {}
    /\ \E a \in AnchorsInState(call.y_true, BACKGROUND) :
          call.y_pred[a[1]][a[2]] # SubSeq(call.y_true[a[1]][a[2]], 1, 4)
    /\ call.result # 0

(***************************************************************************)
(* C8, as claimed.  As the source documents (lines 121-123), with          *)
(* sigma_var = 0 the per-element loss of _smooth_l1 for                    *)
(* x = prediction - target is 0.5 * (sigma * x)^2 if |x| < 1 / sigma^2 and *)
(* |x| - 0.5 / sigma^2 otherwise.                                          *)
(***************************************************************************)
DocumentedSmoothL1(x, ss) ==
    IF Abs(x) * ss < SCALE * SCALE
    THEN Mul(SCALE \div 2, Mul(ss, Mul(x, x)))
    ELSE Abs(x) - Div(SCALE \div 2, ss)

C8_DocumentedFormula ==
    (CallKind = "smooth_l1" /\ CallSigma = 0) =>
        \A a \in AnchorsInState(call.y_true, OBJECT), k \in 1..4 :
            LET x == call.y_pred[a[1]][a[2]][k] - call.y_true[a[1]][a[2]][k]
            IN  Close(regression_loss_at(call.y_pred[a[1]][a[2]][k],
                                         call.y_true[a[1]][a[2]][k],
                                         CallClosure.sigma_squared, 0),
                      DocumentedSmoothL1(x, CallClosure.sigma_squared), 10)

(***************************************************************************)
(* C10.  _smooth_l1 chooses the branch of each element by a strict         *)
(* comparison: with |diff| < 1 / sigma^2 the element's loss is             *)
(* 0.5 * exp(-sigma_var) * diff^2 + 0.5 * sigma_var, with                  *)
(* |diff| >= 1 / sigma^2 (equality included) it is the log/erf branch.  An *)
(* element with diff = 0 contributes exactly 0.5 * sigma_var, so a batch   *)
(* with one positive anchor whose 4 predictions equal its targets has the  *)
(* loss 4 * 0.5 * sigma_var.                                               *)
(* diff and 1 / sigma^2 are the float32 values the code compares.  Where   *)
(* prediction, target and threshold are multiples of 1/16, float32 holds   *)
(* them and their difference exactly, and equality is equality of the      *)
(* decimals; where the decimals differ, the float32 values differ the same *)
(* way on the values of the model.                                         *)
(***************************************************************************)
\* x / SCALE is a multiple of 1/16.
Sixteenths(x) == x % (SCALE \div 16) = 0

\* -1, 0, 1 as the decimal d is below, at, above 1 / ss.
DecimalVsThreshold(d, ss) == Sign3(d * ss - SCALE * SCALE)

\* The element's loss as the claim gives it.
ClaimedElemLoss(r, t, ss, sv) ==
    LET d == Abs(r - t)
        quadratic == Mul(Mul(SCALE \div 2, Exp(-sv)), Mul(d, d)) + Mul(SCALE \div 2, sv)
    IN  CASE DecimalVsThreshold(d, ss) < 0 -> quadratic
          [] DecimalVsThreshold(d, ss) > 0 -> log_branch_at(d, ss, sv)
          [] OTHER -> IF (Sixteenths(r) /\ Sixteenths(t)) \/ ~less(r, t, ss)
                      THEN log_branch_at(d, ss, sv)
                      ELSE quadratic

C10_StrictBranchChoice ==
    CallKind = "smooth_l1" =>
        LET t == call.y_true
            q == call.y_pred
            ss == CallClosure.sigma_squared
            kept == AnchorsInState(t, OBJECT)
            P(a, k) == q[a[1]][a[2]][k]
            T(a, k) == t[a[1]][a[2]][k]
            diff(a, k) == Abs(P(a, k) - T(a, k))
            claimed(a) == SumFn([k \in 1..4 |->
                              ClaimedElemLoss(P(a, k), T(a, k), ss, CallSigma)])
        IN  /\ Close(call.result,
                     Div(SumFn([a \in kept |-> claimed(a)]),
                         Max2(1, Cardinality(kept)) * SCALE),
                     4 * Cardinality(kept) + 1)
            /\ \A a \in kept, k \in 1..4 :
                  /\ (\/ DecimalVsThreshold(diff(a, k), ss) > 0
                      \/ /\ DecimalVsThreshold(diff(a, k), ss) = 0
                         /\ Sixteenths(P(a, k))
                         /\ Sixteenths(T(a, k))) =>
                        regression_loss_at(P(a, k), T(a, k), ss, CallSigma)
                            = log_branch_at(diff(a, k), ss, CallSigma)
                  /\ diff(a, k) = 0 =>
                        regression_loss_at(P(a, k), T(a, k), ss, CallSigma)
                            = Mul(SCALE \div 2, CallSigma)
            /\ (Cardinality(kept) = 1 /\ \A a \in kept, k \in 1..4 : diff(a, k) = 0)
                  => call.result = 4 * Mul(SCALE \div 2, CallSigma)

\* _smooth_l1 has run, with sigma_var # 0, on a batch whose one positive
\* anchor has nonzero targets and predictions equal to them.
C10_Witness ==
    /\ CallKind = "smooth_l1"
    /\ CallSigma # 0
    /\ Cardinality(AnchorsInState(call.y_true, OBJECT)) = 1
    /\ \A a \in AnchorsInState(call.y_true, OBJECT) :
          /\ call.y_pred[a[1]][a[2]] = SubSeq(call.y_true[a[1]][a[2]], 1, 4)
          /\ call.y_pred[a[1]][a[2]] # <<0, 0, 0, 0>>
    /\ call.result = 2 * CallSigma

(***************************************************************************)
(* C6.  A constructor returns the pair (loss function, sigma_var).  Called *)
(* without a sigma_var it creates exactly one new trainable scalar, with   *)
(* the value 0, and returns it; called with a sigma_var it creates none    *)
(* and returns that handle, which the loss function then uses.  Scalars    *)
(* created by separate constructor calls are distinct: updating one does   *)
(* not change the value another loss function reads.                       *)
(***************************************************************************)
\* What a step that constructs a closure does.
C6_ConstructorStep ==
    closures' # closures =>
        LET c == closures'[Len(closures')]
        IN  /\ closures' = Append(closures, c)
            /\ c.ret = c.sigma_var
            /\ c.arg = NoHandle =>
                  /\ trainable' = Append(trainable, 0)
                  /\ c.ret = Len(trainable')
            /\ c.arg # NoHandle =>
                  /\ trainable' = trainable
                  /\ c.ret = c.arg
                  /\ c.arg \in 1..Len(trainable)

\* A step changes the value of at most one scalar, and creates at most one.
C6_UpdateStep ==
    \A h \in 1..Len(trainable) :
        (trainable'[h] # trainable[h]) =>
            /\ Len(trainable') = Len(trainable)
            /\ \A g \in 1..Len(trainable) : g # h => trainable'[g] = trainable[g]

\* The scalar a constructor created is read by no closure constructed before,
\* and by a later one only if that one was given the handle.
C6_Distinct ==
    \A i, j \in 1..Len(closures) :
        /\ closures[i].sigma_var \in 1..Len(trainable)
        /\ (i # j /\ closures[i].arg = NoHandle /\ closures[j].arg = NoHandle)
              => closures[i].sigma_var # closures[j].sigma_var
        /\ (i < j /\ closures[i].arg = NoHandle
                  /\ closures[j].sigma_var = closures[i].sigma_var)
              => closures[j].arg = closures[i].sigma_var

C6_ConstructorsAndScalars ==
    [](C6_Distinct) /\ [][C6_ConstructorStep /\ C6_UpdateStep]_vars

\* Two closures, each constructed without a sigma_var, whose scalars now
\* hold different values.
C6_Witness ==
    /\ Len(closures) = 2
    /\ closures[1].arg = NoHandle
    /\ closures[2].arg = NoHandle
    /\ closures[1].kind # closures[2].kind
    /\ trainable[closures[1].sigma_var] # trainable[closures[2].sigma_var]

(***************************************************************************)
(* C9.  In every interleaving of optimizer updates and evaluations: an     *)
(* evaluation changes neither sigma_var nor the parameters closed over; it *)
(* uses the value sigma_var holds when it runs, not the value it held at   *)
(* construction; and the handle a loss function reads never changes once   *)
(* the function is constructed.                                            *)
(***************************************************************************)
\* The loss closure cl returns for (t, q) when its sigma_var holds sv.
LossAt(cl, t, q, sv) ==
    IF cl.kind = "focal"
    THEN _focal(t, q, cl.alpha, cl.gamma, cl.cutoff, sv)
    ELSE _smooth_l1(t, q, cl.sigma_squared, sv)

C9_EvaluationStep ==
    call' # call =>
        /\ trainable' = trainable
        /\ closures' = closures
        /\ call'.fn \in 1..Len(closures)
        /\ call'.result =
              LossAt(closures[call'.fn], call'.y_true, call'.y_pred,
                     trainable[closures[call'.fn].sigma_var])

C9_ClosureFixed ==
    /\ Len(closures') >= Len(closures)
    /\ \A i \in 1..Len(closures) : closures'[i] = closures[i]

C9_EvaluationReadsCurrentValue ==
    [][C9_EvaluationStep /\ C9_ClosureFixed]_vars

\* A loss function has run after the optimizer moved its sigma_var away from
\* 0, and returned a loss that differs from the loss at sigma_var = 0.
C9_Witness ==
    /\ call.fn # 0
    /\ CallSigma # 0
    /\ call.result = LossAt(CallClosure, call.y_true, call.y_pred, CallSigma)
    /\ call.result # LossAt(CallClosure, call.y_true, call.y_pred, 0)
====
